---- MODULE Spec2Model ----
(***************************************************************************)
(* ServerSentry maintenance tools: the duplicate-function consolidator     *)
(* (tools/consolidate_duplicates.py), the bootstrap migrator               *)
(* (tools/migrate_bootstrap_simple.py) and the project auditor             *)
(* (tools/project_cleanup_audit.py).                                       *)
(*                                                                         *)
(* A text is a sequence of lexical tokens; the newline is the token NL.    *)
(* A token is a maximal run of identifier characters, a path fragment, or  *)
(* a single other character (a brace, a parenthesis, a quote, one blank).  *)
(* str.split, str.join, str.strip, str.count, the `in` substring test and  *)
(* the regular expressions are computed on these token sequences.          *)
(***************************************************************************)
EXTENDS Integers, Sequences, FiniteSets, TLC

VARIABLES
    pc,                 \* position of the running tool
    content,            \* the text handed to the function under test
    functions_to_remove,\* remover: the deletion set
    lines,              \* remover: content.split("\n")
    i,                  \* remover: loop index (0-based, as in the code)
    new_lines,          \* remover: lines emitted so far
    skip_until_end,     \* remover: inside-deletion flag
    brace_count,        \* remover: running brace depth
    result,             \* the returned text
    result2,            \* remover: the text returned by a second removal
    framework_type,     \* injector: "test", "ui" or another string
    fs,                 \* file system: path -> text of the file
    backups,            \* file system: path -> text of <path>.backup, or NoFile
    todo,               \* batch driver: the files of the run, in order
    file_index,         \* batch driver: index in todo of the next file
    run,                \* how many times the tool has been started
    original_content,   \* what the last per-file call read from its file
    ret,                \* what the last per-file call returned
    fault,              \* the I/O step that failed in the last per-file call
    faults,             \* I/O failures so far
    files_updated,      \* DuplicateConsolidator.files_updated
    changes_made,       \* DuplicateConsolidator.changes_made
    migrated_count,     \* migrator main: migrated_count
    error_count,        \* migrator main: error_count
    exit_code,          \* the process exit code, or "none" while it runs
    duplicate_functions,\* auditor: name -> the files recorded for it, in
                        \* insertion order
    issues,             \* auditor: the issues logged so far
    file_hashes,        \* auditor: content hash -> the files with that hash,
                        \* in insertion order
    redundant_files     \* auditor: ProjectAuditor.redundant_files

removerVars == <<content, functions_to_remove, lines, i, new_lines,
                 skip_until_end, brace_count, result, result2>>

fileVars == <<fs, backups>>

batchVars == <<todo, file_index, run, original_content, ret, fault, faults>>

consolidatorVars == <<files_updated, changes_made>>

migratorVars == <<migrated_count, error_count>>

auditorVars == <<duplicate_functions, issues, file_hashes, redundant_files>>

vars == <<pc, removerVars, framework_type, fileVars, batchVars, consolidatorVars,
          migratorVars, auditorVars, exit_code>>

-----------------------------------------------------------------------------
(* Bounds *)

\* longest generated text, in lines
MaxLines == 3

\* longest generated file of the consolidator, in lines
MaxFileLines == 3

\* how many times a tool is started on the same tree
MaxRuns == 2

\* how many I/O operations fail in one behaviour
MaxFaults == 1

-----------------------------------------------------------------------------
(* Tokens and Python string primitives *)

NL == "\n"

NoMatch == "<no match>"

\* tokens that match [a-zA-Z_][a-zA-Z0-9_]* as a whole
IdentifierTokens ==
    {"foo", "bar", "echo", "ok", "if", "then", "true", "fi", "source",
     "bootstrap", "Bootstrap", "SERVERSENTRY_ENV_LOADED", "SERVERSENTRY_ROOT",
     "test_pass", "test_fail", "assert", "setup_test_environment",
     "cleanup_test_environment", "create_test_config", "print_test_header",
     "start_timer", "end_timer", "assert_performance",
     "print_header", "print_success", "print_error", "print_warning",
     "print_info", "print_separator", "print_dim", "print_status",
     "run", "helper", "assert_equals", "stale", "backup",
     "Load", "ServerSentry", "environment", "load", "unified", "test",
     "framework", "UI", "Set", "control", "variables", "export",
     "SERVERSENTRY_QUIET", "SERVERSENTRY_AUTO_INIT", "SERVERSENTRY_INIT_LEVEL",
     "minimal", "false", "Find", "and", "the", "file", "current_dir", "cd",
     "dirname", "BASH_SOURCE", "pwd", "while", "do", "done", "break", "exit",
     "ERROR", "Failed", "to", "Verify", "succeeded", "main"}

IsIdentifier(t) == t \in IdentifierTokens

\* \s of the regular expressions, and what str.strip() removes
IsSpace(t) == t \in {" ", "\t", NL}

\* str.count(t) on a token sequence
CountTok(s, t) == Cardinality({k \in 1..Len(s) : s[k] = t})

\* where the newlines of s stand
NewlinePositions(s) == {n \in 1..Len(s) : s[n] = NL}

\* content.split("\n"): line m runs from behind newline m - 1 to just before
\* newline m; there is always at least one line
SplitLines(s) ==
    LET nl == NewlinePositions(s)
        Nth(m) == CHOOSE n \in nl : Cardinality({q \in nl : q < n}) = m - 1
    IN [m \in 1..(Cardinality(nl) + 1) |->
          SubSeq(s,
                 IF m = 1 THEN 1 ELSE Nth(m - 1) + 1,
                 IF m = Cardinality(nl) + 1 THEN Len(s) ELSE Nth(m) - 1)]

RECURSIVE JoinLines(_)
\* "\n".join(ls): the empty list joins to the empty text
JoinLines(ls) ==
    IF ls = <<>> THEN <<>>
    ELSE IF Len(ls) = 1 THEN ls[1]
    ELSE ls[1] \o <<NL>> \o JoinLines(Tail(ls))

RECURSIVE LStrip(_)
LStrip(l) == IF l # <<>> /\ IsSpace(l[1]) THEN LStrip(Tail(l)) ELSE l

RECURSIVE RStrip(_)
RStrip(l) ==
    IF l # <<>> /\ IsSpace(l[Len(l)]) THEN RStrip(SubSeq(l, 1, Len(l) - 1)) ELSE l

\* line.strip()
Strip(l) == RStrip(LStrip(l))

RECURSIVE SkipSpaces(_, _)
\* \s* from position k: the first position at or after k that holds no blank
SkipSpaces(s, k) ==
    IF k <= Len(s) /\ IsSpace(s[k]) THEN SkipSpaces(s, k + 1) ELSE k

\* ([a-zA-Z_][a-zA-Z0-9_]*)\s*\(\)\s*\{ matched at position k of s:
\* the position of the brace that ends the match, or 0
HeaderEnd(s, k) ==
    IF k <= Len(s) /\ IsIdentifier(s[k])
    THEN LET p == SkipSpaces(s, k + 1) IN
         IF p + 1 <= Len(s) /\ s[p] = "(" /\ s[p + 1] = ")"
         THEN LET q == SkipSpaces(s, p + 2) IN
              IF q <= Len(s) /\ s[q] = "{" THEN q ELSE 0
         ELSE 0
    ELSE 0

\* the name captured by that match, or NoMatch
MatchHeader(s, k) == IF HeaderEnd(s, k) = 0 THEN NoMatch ELSE s[k]

-----------------------------------------------------------------------------
(* DuplicateConsolidator.remove_duplicate_functions *)

\* a header regex that forgets the empty parameter list
function_match_NoParens(line) ==
    LET s == Strip(line) IN
    IF s # <<>> /\ IsIdentifier(s[1])
    THEN LET q == SkipSpaces(s, 2) IN
         IF q <= Len(s) /\ s[q] = "{" THEN s[1] ELSE MatchHeader(s, 1)
    ELSE NoMatch

\* re.match(r"^([a-zA-Z_][a-zA-Z0-9_]*)\s*\(\)\s*\{", line.strip())
function_match(line) == MatchHeader(Strip(line), 1)

\* function_match and func_name in functions_to_remove
StartsRemoved(line, F) ==
    function_match(line) # NoMatch /\ function_match(line) \in F

LoopInit ==
    [i |-> 0, new_lines |-> <<>>, skip_until_end |-> FALSE, brace_count |-> 0]

\* a brace counter that only ever counts closing braces
SkipLineNoOpen(line, st) ==
    LET bc == st.brace_count - CountTok(line, "}") IN
    [i |-> st.i + 1, new_lines |-> st.new_lines,
     skip_until_end |-> ~(bc <= 0),
     brace_count |-> IF bc <= 0 THEN 0 ELSE bc]

\* the skip_until_end branch of the loop body
SkipLine(line, st) ==
    LET bc == st.brace_count + CountTok(line, "{") - CountTok(line, "}") IN
    [i |-> st.i + 1, new_lines |-> st.new_lines,
     skip_until_end |-> ~(bc <= 0),
     brace_count |-> IF bc <= 0 THEN 0 ELSE bc]

\* a header branch without its `continue`: the header falls through to append
StartSkippingKeepsHeader(line, st) ==
    [i |-> st.i + 1, new_lines |-> Append(st.new_lines, line),
     skip_until_end |-> TRUE,
     brace_count |-> CountTok(line, "{") - CountTok(line, "}")]

\* the branch taken on a header whose name is in the deletion set
StartSkipping(line, st) ==
    [i |-> st.i + 1, new_lines |-> st.new_lines,
     skip_until_end |-> TRUE,
     brace_count |-> CountTok(line, "{") - CountTok(line, "}")]

\* new_lines.append(line); i += 1
KeepLine(line, st) ==
    [i |-> st.i + 1, new_lines |-> Append(st.new_lines, line),
     skip_until_end |-> st.skip_until_end, brace_count |-> st.brace_count]

\* one iteration of the while loop
LoopBody(ls, F, st) ==
    LET line == ls[st.i + 1] IN
    IF st.skip_until_end THEN SkipLine(line, st)
    ELSE IF StartsRemoved(line, F) THEN StartSkipping(line, st)
    ELSE KeepLine(line, st)

RECURSIVE RunLoop(_, _, _)
RunLoop(ls, F, st) ==
    IF st.i < Len(ls) THEN RunLoop(ls, F, LoopBody(ls, F, st)) ELSE st

remove_duplicate_functions(c, F) ==
    JoinLines(RunLoop(SplitLines(c), F, LoopInit).new_lines)

-----------------------------------------------------------------------------
(* The remover run line by line, then run again on its own output *)

RemoverVocab ==
    { <<"foo", "(", ")", " ", "{">>,
      <<" ", "foo", "(", ")", "{">>,
      <<"foo", "(", ")", " ", "{", " ", "echo", ";", " ", "}">>,
      <<"bar", "(", ")", " ", "{">>,
      <<"}">>,
      <<" ", "echo", " ", "ok">>,
      <<" ", "echo", " ", "\"", "{", "\"">>,
      <<"foo", " ", "{">>,
      <<>> }

\* foo() {\n  if true; then\n    echo "{"\n  fi\n}\nbar() {\n  echo ok\n}\n
NestedBraceLines ==
    << <<"foo", "(", ")", " ", "{">>,
       <<" ", " ", "if", " ", "true", ";", " ", "then">>,
       <<" ", " ", " ", " ", "echo", " ", "\"", "{", "\"">>,
       <<" ", " ", "fi">>,
       <<"}">>,
       <<"bar", "(", ")", " ", "{">>,
       <<" ", " ", "echo", " ", "ok">>,
       <<"}">>,
       <<>> >>

\* foo() {\n  if true; then\n  fi\n}\n echo ok\nbar() {\n}
BalancedLines ==
    << <<"foo", "(", ")", " ", "{">>,
       <<" ", " ", "if", " ", "true", ";", " ", "then">>,
       <<" ", " ", "fi">>,
       <<"}">>,
       <<" ", "echo", " ", "ok">>,
       <<"bar", "(", ")", " ", "{">>,
       <<"}">> >>

RemoverTexts ==
    { JoinLines(ls) : ls \in UNION { [1..n -> RemoverVocab] : n \in 1..MaxLines } }
        \cup { JoinLines(NestedBraceLines), JoinLines(BalancedLines) }

DeletionSets == SUBSET {"foo", "bar"}

LoopState ==
    [i |-> i, new_lines |-> new_lines,
     skip_until_end |-> skip_until_end, brace_count |-> brace_count]

SetLoop(st) ==
    /\ i' = st.i
    /\ new_lines' = st.new_lines
    /\ skip_until_end' = st.skip_until_end
    /\ brace_count' = st.brace_count

\* the value that stands for a path with no file: no text holds this token
NoFile == <<"<no file>">>

\* the auditor's variables while another tool runs
IdleAuditor ==
    /\ duplicate_functions = <<>>
    /\ issues = <<>>
    /\ file_hashes = <<>>
    /\ redundant_files = <<>>

\* the remover's variables while another tool runs
IdleRemover ==
    /\ content = <<>>
    /\ functions_to_remove = {}
    /\ lines = <<>>
    /\ i = 0
    /\ new_lines = <<>>
    /\ skip_until_end = FALSE
    /\ brace_count = 0
    /\ result = <<>>
    /\ result2 = <<>>

\* the file system and the batch driver while a pure function is exercised
IdleFiles ==
    /\ IdleAuditor
    /\ fs = <<>>
    /\ backups = <<>>
    /\ todo = <<>>
    /\ file_index = 1
    /\ run = 0
    /\ original_content = <<>>
    /\ ret = "none"
    /\ fault = "none"
    /\ faults = 0
    /\ files_updated = 0
    /\ changes_made = 0
    /\ migrated_count = 0
    /\ error_count = 0
    /\ exit_code = "none"

InitRemover ==
    /\ pc = "loop"
    /\ framework_type = "none"
    /\ IdleFiles
    /\ content \in RemoverTexts
    /\ functions_to_remove \in DeletionSets
    /\ lines = SplitLines(content)
    /\ i = 0
    /\ new_lines = <<>>
    /\ skip_until_end = FALSE
    /\ brace_count = 0
    /\ result = <<>>
    /\ result2 = <<>>

RemoverSkip ==
    /\ pc = "loop" /\ i < Len(lines)
    /\ skip_until_end
    /\ SetLoop(SkipLine(lines[i + 1], LoopState))
    /\ UNCHANGED <<pc, content, functions_to_remove, lines, result, result2,
                   framework_type, auditorVars, fileVars, batchVars, consolidatorVars,
                   migratorVars, exit_code>>

RemoverStart ==
    /\ pc = "loop" /\ i < Len(lines)
    /\ ~skip_until_end
    /\ StartsRemoved(lines[i + 1], functions_to_remove)
    /\ SetLoop(StartSkipping(lines[i + 1], LoopState))
    /\ UNCHANGED <<pc, content, functions_to_remove, lines, result, result2,
                   framework_type, auditorVars, fileVars, batchVars, consolidatorVars,
                   migratorVars, exit_code>>

RemoverKeep ==
    /\ pc = "loop" /\ i < Len(lines)
    /\ ~skip_until_end
    /\ ~StartsRemoved(lines[i + 1], functions_to_remove)
    /\ SetLoop(KeepLine(lines[i + 1], LoopState))
    /\ UNCHANGED <<pc, content, functions_to_remove, lines, result, result2,
                   framework_type, auditorVars, fileVars, batchVars, consolidatorVars,
                   migratorVars, exit_code>>

\* return "\n".join(new_lines)
RemoverReturn ==
    /\ pc = "loop" /\ i >= Len(lines)
    /\ result' = JoinLines(new_lines)
    /\ pc' = "removed"
    /\ UNCHANGED <<content, functions_to_remove, lines, i, new_lines,
                   skip_until_end, brace_count, result2,
                   framework_type, auditorVars, fileVars, batchVars, consolidatorVars,
                   migratorVars, exit_code>>

\* the same deletion set removed again from the returned text
RemoverAgain ==
    /\ pc = "removed"
    /\ result2' = remove_duplicate_functions(result, functions_to_remove)
    /\ pc' = "done"
    /\ UNCHANGED <<content, functions_to_remove, lines, i, new_lines,
                   skip_until_end, brace_count, result,
                   framework_type, auditorVars, fileVars, batchVars, consolidatorVars,
                   migratorVars, exit_code>>

NextRemover ==
    \/ RemoverSkip
    \/ RemoverStart
    \/ RemoverKeep
    \/ RemoverReturn
    \/ RemoverAgain

SpecRemover == InitRemover /\ [][NextRemover]_vars

-----------------------------------------------------------------------------
(* Substring search *)

\* the searched strings that occur inside a token
NeedlesIn(t) ==
    {t} \cup
    CASE t = "assert_performance" -> {"assert"}
      [] t = "assert_equals" -> {"assert"}
      [] t = "lib/serversentry-bootstrap.sh" -> {"bootstrap"}
      [] OTHER -> {}

\* str.lower() of a token
Lower(t) == IF t = "Bootstrap" THEN "bootstrap" ELSE t

\* needle in s
In(needle, s) == \E n \in 1..Len(s) : needle \in NeedlesIn(s[n])

\* needle in s.lower()
InLower(needle, s) == \E n \in 1..Len(s) : needle \in NeedlesIn(Lower(s[n]))

RECURSIVE Concat(_)
\* "".join(ls)
Concat(ls) == IF ls = <<>> THEN <<>> ELSE ls[1] \o Concat(Tail(ls))

-----------------------------------------------------------------------------
(* DuplicateConsolidator: framework sets and add_framework_import *)

test_functions ==
    {"test_pass", "test_fail", "assert", "setup_test_environment",
     "cleanup_test_environment", "create_test_config", "print_test_header",
     "start_timer", "end_timer", "assert_performance"}

ui_functions ==
    {"print_header", "print_success", "print_error", "print_warning",
     "print_info", "print_separator", "print_dim", "print_status"}

should_add_test_framework(c) == \E f \in test_functions : In(f, c)

should_add_ui_framework(c) == \E f \in ui_functions : In(f, c)

\* the lines of the test framework's import block
TestImportLines ==
    << <<>>,
       <<"#", " ", "Load", " ", "unified", " ", "test", " ", "framework">>,
       <<"if", " ", "[[", " ", "-f", " ", "\"", "$", "{", "SERVERSENTRY_ROOT", "}",
         "/tests/lib/", "test_framework_core.sh", "\"", " ", "]]", ";", " ", "then">>,
       <<" ", " ", "source", " ", "\"", "$", "{", "SERVERSENTRY_ROOT", "}",
         "/tests/lib/", "test_framework_core.sh", "\"">>,
       <<"fi">>,
       <<>> >>

\* the lines of the UI framework's import block
UiImportLines ==
    << <<>>,
       <<"#", " ", "Load", " ", "unified", " ", "UI", " ", "framework">>,
       <<"if", " ", "[[", " ", "-f", " ", "\"", "$", "{", "SERVERSENTRY_ROOT", "}",
         "/lib/ui/common/", "print_utils.sh", "\"", " ", "]]", ";", " ", "then">>,
       <<" ", " ", "source", " ", "\"", "$", "{", "SERVERSENTRY_ROOT", "}",
         "/lib/ui/common/", "print_utils.sh", "\"">>,
       <<"fi">>,
       <<>> >>

\* import_block: one string that starts and ends with a newline
import_block(type) ==
    JoinLines(IF type = "test" THEN TestImportLines ELSE UiImportLines)

MinOf(S) == CHOOSE n \in S : \A m \in S : n <= m

\* the first `fi` from line m on with "bootstrap" between m and it (1-based;
\* 0 when there is none)
BootstrapEnd(ls, m) ==
    LET ends == {j \in m..Len(ls) :
                    /\ Strip(ls[j]) = <<"fi">>
                    /\ InLower("bootstrap", Concat(SubSeq(ls, m, j - 1)))}
    IN IF ends = {} THEN 0 ELSE MinOf(ends)

\* insert_index: how many lines stay in front of the import block
insert_index(ls) ==
    LET markers == {m \in 1..Len(ls) : In("SERVERSENTRY_ENV_LOADED", ls[m])} IN
    IF markers = {} THEN 0 ELSE BootstrapEnd(ls, MinOf(markers))

\* list.insert(n, x)
InsertAt(ls, n, x) == SubSeq(ls, 1, n) \o <<x>> \o SubSeq(ls, n + 1, Len(ls))

add_framework_import(c, type) ==
    IF type \notin {"test", "ui"} THEN c
    ELSE LET ls == SplitLines(c) IN
         JoinLines(InsertAt(ls, insert_index(ls), import_block(type)))

-----------------------------------------------------------------------------
(* DuplicateConsolidator.update_file, without its I/O *)

\* one "if self.should_add_..." block of update_file on st = [content, file_updated]
FrameworkStep(st, orig, type) ==
    LET needed == IF type = "test" THEN should_add_test_framework(st.content)
                  ELSE should_add_ui_framework(st.content)
        path == IF type = "test" THEN "test_framework_core.sh" ELSE "print_utils.sh"
        funcs == IF type = "test" THEN test_functions ELSE ui_functions
        imported == In(path, st.content)
        c1 == IF imported THEN st.content ELSE add_framework_import(st.content, type)
        c2 == remove_duplicate_functions(c1, funcs)
    IN IF needed
       THEN [content |-> c2,
             file_updated |-> st.file_updated \/ ~imported \/ c2 # orig]
       ELSE st

\* content and file_updated when update_file reaches "Write back if changed"
Updated(orig) ==
    FrameworkStep(
        FrameworkStep([content |-> orig, file_updated |-> FALSE], orig, "test"),
        orig, "ui")

\* file_updated and content != original_content
WillWrite(orig) == Updated(orig).file_updated /\ Updated(orig).content # orig

-----------------------------------------------------------------------------
(* Input files of the consolidator *)

MarkerLine ==
    <<"if", " ", "[[", " ", "-z", " ", "\"", "$", "{", "SERVERSENTRY_ENV_LOADED",
      ":-", "}", "\"", " ", "]]", ";", " ", "then">>

LegacySourceLine == <<" ", " ", "source", " ", "lib/serversentry-bootstrap.sh">>

ConsolidatorVocab ==
    { MarkerLine,
      LegacySourceLine,
      <<"fi">>,
      <<" ", " ", "fi">>,
      <<"test_pass", "(", ")", " ", "{">>,
      <<"}">>,
      <<"test_pass", " ", "ok">>,
      <<"print_info", "(", ")", " ", "{", " ", "echo", ";", " ", "}">> }

\* a test helper that loads the environment itself, and a test that uses it
SetupLoadsEnvLines ==
    << <<"setup_test_environment", "(", ")", " ", "{">>,
       MarkerLine,
       LegacySourceLine,
       <<"fi">>,
       <<"}">>,
       <<"test_pass", " ", "ok">> >>

\* a bootstrap block, then a local copy of a framework function and its use
BootstrapThenBodyLines ==
    << MarkerLine,
       LegacySourceLine,
       <<"fi">>,
       <<"print_info", "(", ")", " ", "{">>,
       <<" ", " ", "echo", " ", "ok">>,
       <<"}">>,
       <<"print_info", " ", "ok">>,
       <<"assert_equals", " ", "ok">> >>

ConsolidatorTexts ==
    { JoinLines(ls) :
        ls \in UNION { [1..n -> ConsolidatorVocab] : n \in 1..MaxFileLines } }
        \cup { JoinLines(SetupLoadsEnvLines), JoinLines(BootstrapThenBodyLines) }

-----------------------------------------------------------------------------
(* add_framework_import applied to a text *)

InitInjector ==
    /\ pc = "inject"
    /\ content \in ConsolidatorTexts
    /\ framework_type \in {"test", "ui", "none"}
    /\ functions_to_remove = {}
    /\ lines = <<>>
    /\ i = 0
    /\ new_lines = <<>>
    /\ skip_until_end = FALSE
    /\ brace_count = 0
    /\ result = <<>>
    /\ result2 = <<>>
    /\ IdleFiles

Inject ==
    /\ pc = "inject"
    /\ result' = add_framework_import(content, framework_type)
    /\ pc' = "injected"
    /\ UNCHANGED <<content, functions_to_remove, lines, i, new_lines,
                   skip_until_end, brace_count, result2,
                   framework_type, auditorVars, fileVars, batchVars, consolidatorVars,
                   migratorVars, exit_code>>

NextInjector == Inject

SpecInjector == InitInjector /\ [][NextInjector]_vars

-----------------------------------------------------------------------------
(* Files and failing I/O *)

Paths == {"a.sh", "b.sh"}

\* the order in which glob yields the files
PathOrder == <<"a.sh", "b.sh">>

\* what a write that stopped part-way leaves in a file opened with "w":
\* nothing, or the first half of the text
PartialWrites(new) == {SubSeq(new, 1, n) : n \in {0, Len(new) \div 2}}

\* a failing write that leaves the old text in place
FailedWritesKeepsOld(old, new, kind) == {old}

\* the file after open(path, "w") or f.write raised
FailedWrites(old, new, kind) ==
    IF kind = "open" THEN {old} ELSE PartialWrites(new)

-----------------------------------------------------------------------------
(* DuplicateConsolidator.run_consolidation over a tree *)

has_duplicates(c) == should_add_test_framework(c) \/ should_add_ui_framework(c)

\* find_files_with_duplicates
find_files_with_duplicates(tree) ==
    SelectSeq(PathOrder, LAMBDA f : has_duplicates(tree[f]))

\* a second file of the tree
SecondFileTexts ==
    { <<"echo", " ", "ok">>,
      JoinLines(<< <<"print_info", "(", ")", " ", "{">>,
                   <<" ", " ", "echo", " ", "ok">>,
                   <<"}">>,
                   <<"print_info", " ", "ok">> >>) }

IdleRemoverAndInjector ==
    /\ IdleRemover
    /\ IdleAuditor
    /\ framework_type = "none"

InitConsolidator ==
    /\ IdleRemoverAndInjector
    /\ fs \in {t \in [Paths -> ConsolidatorTexts \cup SecondFileTexts] :
                 t["a.sh"] \in ConsolidatorTexts /\ t["b.sh"] \in SecondFileTexts}
    /\ backups = [f \in Paths |-> NoFile]
    /\ todo = find_files_with_duplicates(fs)
    /\ file_index = 1
    /\ run = 1
    /\ original_content = <<>>
    /\ ret = "none"
    /\ fault = "none"
    /\ faults = 0
    /\ files_updated = 0
    /\ changes_made = 0
    /\ migrated_count = 0
    /\ error_count = 0
    /\ exit_code = "none"
    /\ pc = "consolidate"

\* update_file(todo[file_index]) with every I/O step succeeding
UpdateFile ==
    /\ pc = "consolidate" /\ file_index <= Len(todo)
    /\ LET f == todo[file_index]
           orig == fs[f]
       IN /\ original_content' = orig
          /\ IF WillWrite(orig)
             THEN /\ fs' = [fs EXCEPT ![f] = Updated(orig).content]
                  /\ files_updated' = files_updated + 1
                  /\ changes_made' = changes_made + 1
                  /\ ret' = "True"
             ELSE /\ UNCHANGED <<fs, files_updated, changes_made>>
                  /\ ret' = "False"
    /\ fault' = "none"
    /\ file_index' = file_index + 1
    /\ UNCHANGED <<pc, removerVars, framework_type, auditorVars, backups, todo, run, faults,
                   migratorVars, exit_code>>

\* update_file(todo[file_index]) when reading the file raises
UpdateFileReadFails ==
    /\ pc = "consolidate" /\ file_index <= Len(todo)
    /\ faults < MaxFaults
    /\ faults' = faults + 1
    /\ fault' = "read"
    /\ ret' = "False"
    /\ file_index' = file_index + 1
    /\ UNCHANGED <<pc, removerVars, framework_type, auditorVars, fileVars, todo, run,
                   original_content, consolidatorVars, migratorVars, exit_code>>

\* update_file(todo[file_index]) when the write-back raises: there is no
\* backup and the handler only reports
UpdateFileWriteFails ==
    /\ pc = "consolidate" /\ file_index <= Len(todo)
    /\ faults < MaxFaults
    /\ LET f == todo[file_index]
           orig == fs[f]
       IN /\ WillWrite(orig)
          /\ original_content' = orig
          /\ \E kind \in {"open", "write"} :
               /\ fault' = kind
               /\ \E left \in FailedWrites(orig, Updated(orig).content, kind) :
                    fs' = [fs EXCEPT ![f] = left]
    /\ faults' = faults + 1
    /\ ret' = "False"
    /\ file_index' = file_index + 1
    /\ UNCHANGED <<pc, removerVars, framework_type, auditorVars, backups, todo, run,
                   consolidatorVars, migratorVars, exit_code>>

\* the summary of run_consolidation; main exits 0
ConsolidationDone ==
    /\ pc = "consolidate" /\ file_index > Len(todo)
    /\ pc' = "consolidated"
    /\ exit_code' = 0
    /\ UNCHANGED <<removerVars, framework_type, auditorVars, fileVars, batchVars,
                   consolidatorVars, migratorVars>>

\* the script started again on the tree it left
ConsolidateAgain ==
    /\ pc = "consolidated" /\ run < MaxRuns
    /\ run' = run + 1
    /\ pc' = "consolidate"
    /\ todo' = find_files_with_duplicates(fs)
    /\ file_index' = 1
    /\ files_updated' = 0
    /\ changes_made' = 0
    /\ ret' = "none"
    /\ fault' = "none"
    /\ exit_code' = "none"
    /\ UNCHANGED <<removerVars, framework_type, auditorVars, fileVars, original_content,
                   faults, migratorVars>>

NextConsolidator ==
    \/ UpdateFile
    \/ UpdateFileReadFails
    \/ UpdateFileWriteFails
    \/ ConsolidationDone
    \/ ConsolidateAgain

SpecConsolidator == InitConsolidator /\ [][NextConsolidator]_vars

-----------------------------------------------------------------------------
(* migrate_bootstrap_simple.py: the bootstrap blocks and the substitution *)

LoadTokens == <<"#", " ", "Load", " ", "ServerSentry", " ", "environment">>

LegacyPath == "lib/serversentry-bootstrap.sh"

\* NEW_BOOTSTRAP_PATTERN, line by line
NewBootstrapLines ==
    << LoadTokens,
       MarkerLine,
       <<" ", " ", "#", " ", "Set", " ", "bootstrap", " ", "control", " ", "variables">>,
       <<" ", " ", "export", " ", "SERVERSENTRY_QUIET", "=", "true">>,
       <<" ", " ", "export", " ", "SERVERSENTRY_AUTO_INIT", "=", "false">>,
       <<" ", " ", "export", " ", "SERVERSENTRY_INIT_LEVEL", "=", "minimal">>,
       <<" ", " ">>,
       <<" ", " ", "#", " ", "Find", " ", "and", " ", "source", " ", "the", " ",
         "main", " ", "bootstrap", " ", "file">>,
       <<" ", " ", "current_dir", "=", "\"", "$", "(", "cd", " ", "\"", "$", "(",
         "dirname", " ", "\"", "$", "{", "BASH_SOURCE", "[", "0", "]", "}", "\"",
         ")", "\"", " ", "&&", " ", "pwd", ")", "\"">>,
       <<" ", " ", "while", " ", "[[", " ", "\"", "$", "current_dir", "\"", " ",
         "!=", " ", "\"", "/", "\"", " ", "]]", ";", " ", "do">>,
       <<" ", " ", " ", " ", "if", " ", "[[", " ", "-f", " ", "\"", "$",
         "current_dir", "/serversentry-env.sh", "\"", " ", "]]", ";", " ", "then">>,
       <<" ", " ", " ", " ", " ", " ", "source", " ", "\"", "$", "current_dir",
         "/serversentry-env.sh", "\"">>,
       <<" ", " ", " ", " ", " ", " ", "break">>,
       <<" ", " ", " ", " ", "fi">>,
       <<" ", " ", " ", " ", "current_dir", "=", "\"", "$", "(", "dirname", " ",
         "\"", "$", "current_dir", "\"", ")", "\"">>,
       <<" ", " ", "done">>,
       <<" ", " ">>,
       <<" ", " ", "#", " ", "Verify", " ", "bootstrap", " ", "succeeded">>,
       <<" ", " ">> \o MarkerLine,
       <<" ", " ", " ", " ", "echo", " ", "\"", "<cross mark>", " ", "ERROR", ":",
         " ", "Failed", " ", "to", " ", "load", " ", "ServerSentry", " ",
         "environment", "\"", " ", ">&2">>,
       <<" ", " ", " ", " ", "exit", " ", "1">>,
       <<" ", " ", "fi">>,
       <<"fi">> >>

NEW_BOOTSTRAP_PATTERN == JoinLines(NewBootstrapLines)

\* the literal lit stands at position p of c
At(c, p, lit) ==
    p + Len(lit) - 1 <= Len(c) /\ SubSeq(c, p, p + Len(lit) - 1) = lit

\* \s*\n from position p: the blanks from p on include a newline
BlanksWithNewline(c, p) ==
    \E n \in p..(SkipSpaces(c, p) - 1) : c[n] = NL

\* where  \n if [[ -z "${SERVERSENTRY_ENV_LOADED:-}" ]]; then\s*\n  can match
\* behind a comment that starts at a: the first token of each such if
IfStarts(c, a) ==
    {b \in (a + Len(LoadTokens) + 1)..Len(c) :
        /\ c[b - 1] = NL
        /\ At(c, b, MarkerLine)
        /\ BlanksWithNewline(c, b + Len(MarkerLine))}

\* where lib/serversentry-bootstrap\.sh occurs behind position p
LegacyAfter(c, p) == {l \in (p + 1)..Len(c) : LegacyPath \in NeedlesIn(c[l])}

\* the last token ^fi\s*$ consumes when fi stands at d, or 0 when it cannot
\* match there: greedy \s* runs through blanks and newlines, then backs up to
\* the last position in front of a newline, or stays at the end of the text
FiEnd(c, d) ==
    LET q == SkipSpaces(c, d + 1)
        nls == {n \in (d + 1)..(q - 1) : c[n] = NL}
    IN IF ~(c[d] = "fi" /\ d > 1 /\ c[d - 1] = NL) THEN 0
       ELSE IF q > Len(c) THEN Len(c)
       ELSE IF nls = {} THEN 0
       ELSE (CHOOSE n \in nls : \A m \in nls : m <= n) - 1

FiAfter(c, p) == {d \in (p + 1)..Len(c) : FiEnd(c, d) # 0}

\* the last token of old_pattern's match that starts at a, or 0: every
\* quantifier is lazy, so the first if, then the first legacy path behind it,
\* then the first closing fi behind that
MatchEnd(c, a) ==
    IF ~At(c, a, LoadTokens) \/ IfStarts(c, a) = {} THEN 0
    ELSE LET b == MinOf(IfStarts(c, a))
             ls == LegacyAfter(c, b + Len(MarkerLine) - 1)
         IN IF ls = {} THEN 0
            ELSE IF FiAfter(c, MinOf(ls)) = {} THEN 0
            ELSE FiEnd(c, MinOf(FiAfter(c, MinOf(ls))))

RECURSIVE SubFrom(_, _)
\* old_pattern.sub(NEW_BOOTSTRAP_PATTERN, c) from position p on
SubFrom(c, p) ==
    LET starts == {a \in p..Len(c) : MatchEnd(c, a) # 0} IN
    IF starts = {} THEN SubSeq(c, p, Len(c))
    ELSE SubSeq(c, p, MinOf(starts) - 1) \o NEW_BOOTSTRAP_PATTERN
             \o SubFrom(c, MatchEnd(c, MinOf(starts)) + 1)

\* new_content
Migrated(c) == SubFrom(c, 1)

needs_migration(c) == In(LegacyPath, c)

-----------------------------------------------------------------------------
(* migrate_bootstrap_simple.py: migrate_file and main over a tree *)

\* longest generated file of the migrator, in lines
MaxMigratorLines == 4

MigratorVocab == { LoadTokens, MarkerLine, LegacySourceLine, <<"fi">> }

\* a legacy block whose closing fi is indented, then the body
IndentedClosingLines ==
    << LoadTokens, MarkerLine, LegacySourceLine, <<" ", " ", "fi">>,
       <<"run", " ", "ok">> >>

\* a legacy block, blank lines, the body
LegacyThenBodyLines ==
    << LoadTokens, MarkerLine, LegacySourceLine, <<"fi">>, <<>>, <<>>,
       <<"run", " ", "ok">>, <<>> >>

MigratorTexts ==
    { JoinLines(ls) :
        ls \in UNION { [1..n -> MigratorVocab] : n \in 1..MaxMigratorLines } }
        \cup { JoinLines(IndentedClosingLines), JoinLines(LegacyThenBodyLines) }

\* a second file of the tree: one with the legacy block, one that only
\* mentions the legacy path
SecondMigratorTexts ==
    { JoinLines(LegacyThenBodyLines),
      JoinLines(<< <<"source", " ", LegacyPath>>, <<"run", " ", "ok">> >>) }

\* a backup left behind by an earlier run
StaleBackup == <<"stale", " ", "backup">>

\* the except branch: the backup, if there is one, is moved over the file
\* without being restored: it is only deleted
RestoreDropsBackup(tree, bks, f) ==
    [fs |-> tree, backups |-> [bks EXCEPT ![f] = NoFile]]

\* the except branch: if os.path.exists(backup_path): shutil.move(backup_path,
\* file_path)
Restore(tree, bks, f) ==
    IF bks[f] # NoFile
    THEN [fs |-> [tree EXCEPT ![f] = bks[f]], backups |-> [bks EXCEPT ![f] = NoFile]]
    ELSE [fs |-> tree, backups |-> bks]

InitMigrator ==
    /\ IdleRemoverAndInjector
    /\ fs \in {t \in [Paths -> MigratorTexts \cup SecondMigratorTexts] :
                 t["a.sh"] \in MigratorTexts /\ t["b.sh"] \in SecondMigratorTexts}
    /\ backups \in {bk \in [Paths -> {NoFile, StaleBackup}] : bk["b.sh"] = NoFile}
    /\ todo = SelectSeq(PathOrder, LAMBDA f : needs_migration(fs[f]))
    /\ file_index = 1
    /\ run = 1
    /\ original_content = <<>>
    /\ ret = "none"
    /\ fault = "none"
    /\ faults = 0
    /\ files_updated = 0
    /\ changes_made = 0
    /\ migrated_count = 0
    /\ error_count = 0
    /\ exit_code = "none"
    /\ pc = "migrate"

\* main's loop body around a migrate_file call that returned r
Tally(r) ==
    /\ ret' = r
    /\ IF r = "True" THEN /\ migrated_count' = migrated_count + 1
                 /\ UNCHANGED error_count
            ELSE /\ error_count' = error_count + 1
                 /\ UNCHANGED migrated_count
    /\ file_index' = file_index + 1
    /\ UNCHANGED <<pc, exit_code>>

\* an exception left migrate_file: main ends with a traceback, exit code 1
Crash ==
    /\ ret' = "raised"
    /\ pc' = "crashed"
    /\ exit_code' = 1
    /\ UNCHANGED <<file_index, migratorVars>>

\* the except branch after the I/O step `kind` raised with the files as in
\* tree and bks: the restore itself may raise when there is a backup to move
Handle(tree, bks, f, kind) ==
    /\ faults < MaxFaults
    /\ faults' = faults + 1
    /\ \/ /\ fault' = kind
          /\ fs' = Restore(tree, bks, f).fs
          /\ backups' = Restore(tree, bks, f).backups
          /\ Tally("False")
       \/ /\ bks[f] # NoFile
          /\ fault' = kind \o "+move"
          /\ fs' = tree
          /\ backups' = bks
          /\ Crash

\* migrate_file(todo[file_index]) with every I/O step succeeding
MigrateFile ==
    /\ pc = "migrate" /\ file_index <= Len(todo)
    /\ LET f == todo[file_index]
           c == fs[f]
       IN /\ original_content' = c
          /\ backups' = [backups EXCEPT ![f] = NoFile]
          /\ IF Migrated(c) = c
             THEN /\ UNCHANGED fs
                  /\ Tally("False")
             ELSE /\ fs' = [fs EXCEPT ![f] = Migrated(c)]
                  /\ Tally("True")
    /\ fault' = "none"
    /\ UNCHANGED <<removerVars, framework_type, auditorVars, todo, run, faults,
                   consolidatorVars>>

\* reading the file raises: nothing has been copied yet
MigrateReadFails ==
    /\ pc = "migrate" /\ file_index <= Len(todo)
    /\ Handle(fs, backups, todo[file_index], "read")
    /\ UNCHANGED <<removerVars, framework_type, auditorVars, todo, run, original_content,
                   consolidatorVars>>

\* shutil.copy2 raises: the backup is as it was, or holds part of the copy,
\* or holds all of it (copystat raised)
MigrateCopyFails ==
    /\ pc = "migrate" /\ file_index <= Len(todo)
    /\ LET f == todo[file_index]
           c == fs[f]
       IN /\ original_content' = c
          /\ \E left \in {backups[f], c} \cup PartialWrites(c) :
               Handle(fs, [backups EXCEPT ![f] = left], f, "copy")
    /\ UNCHANGED <<removerVars, framework_type, auditorVars, todo, run, consolidatorVars>>

\* opening the file for writing, or writing it, raises
MigrateWriteFails ==
    /\ pc = "migrate" /\ file_index <= Len(todo)
    /\ LET f == todo[file_index]
           c == fs[f]
       IN /\ Migrated(c) # c
          /\ original_content' = c
          /\ \E kind \in {"open", "write"} :
               \E left \in FailedWrites(c, Migrated(c), kind) :
                  Handle([fs EXCEPT ![f] = left], [backups EXCEPT ![f] = c], f, kind)
    /\ UNCHANGED <<removerVars, framework_type, auditorVars, todo, run, consolidatorVars>>

\* os.remove(backup_path) raises, on the no-change path or after the write
MigrateRemoveFails ==
    /\ pc = "migrate" /\ file_index <= Len(todo)
    /\ LET f == todo[file_index]
           c == fs[f]
       IN /\ original_content' = c
          /\ Handle([fs EXCEPT ![f] = Migrated(c)], [backups EXCEPT ![f] = c],
                    f, "remove")
    /\ UNCHANGED <<removerVars, framework_type, auditorVars, todo, run, consolidatorVars>>

\* main's summary and the exit code
MigrationDone ==
    /\ pc = "migrate" /\ file_index > Len(todo)
    /\ pc' = "migrated"
    /\ exit_code' = IF todo = <<>> \/ error_count = 0 THEN 0 ELSE 1
    /\ UNCHANGED <<removerVars, framework_type, auditorVars, fileVars, batchVars,
                   consolidatorVars, migratorVars>>

NextMigrator ==
    \/ MigrateFile
    \/ MigrateReadFails
    \/ MigrateCopyFails
    \/ MigrateWriteFails
    \/ MigrateRemoveFails
    \/ MigrationDone

SpecMigrator == InitMigrator /\ [][NextMigrator]_vars

\* both mutating tools
SpecMutating ==
    (InitConsolidator \/ InitMigrator) /\ [][NextConsolidator \/ NextMigrator]_vars

-----------------------------------------------------------------------------
(* project_cleanup_audit.py: ProjectAuditor.find_duplicate_functions *)

\* longest generated file of the auditor, in lines
MaxAuditLines == 3

\* where ^ matches under re.MULTILINE: at the start of the text and behind
\* every newline
LineStart(c, a) == a = 1 \/ c[a - 1] = NL

RECURSIVE FindAllFrom(_, _)
\* function_pattern.findall(c) from position p on: the names of the
\* non-overlapping matches, left to right
FindAllFrom(c, p) ==
    LET starts == {a \in p..Len(c) : LineStart(c, a) /\ HeaderEnd(c, a) # 0} IN
    IF starts = {} THEN <<>>
    ELSE <<c[MinOf(starts)]>> \o FindAllFrom(c, HeaderEnd(c, MinOf(starts)) + 1)

\* functions = function_pattern.findall(content)
findall(c) == FindAllFrom(c, 1)

\* self.duplicate_functions[func_name].append(file_path): a defaultdict(list)
\* in insertion order
AppendFile(d, func_name, file_path) ==
    IF \E k \in 1..Len(d) : d[k].func_name = func_name
    THEN [k \in 1..Len(d) |->
            IF d[k].func_name = func_name
            THEN [d[k] EXCEPT !.files = Append(@, file_path)]
            ELSE d[k]]
    ELSE Append(d, [func_name |-> func_name, files |-> <<file_path>>])

RECURSIVE Register(_, _, _)
\* for func_name in functions: ...append(file_path)
Register(d, functions, file_path) ==
    IF functions = <<>> THEN d
    ELSE Register(AppendFile(d, functions[1], file_path), Tail(functions),
                  file_path)

\* a finding attributed to the last file of the list instead of the first
DuplicateIssueLastFile(entry) ==
    [severity |-> "MEDIUM", category |-> "DUPLICATE_FUNCTION",
     file |-> entry.files[Len(entry.files)],
     description |-> [text |-> "defined in multiple files",
                      func_name |-> entry.func_name, files |-> entry.files]]

\* log_issue("MEDIUM", "DUPLICATE_FUNCTION", files[0], ...)
DuplicateIssue(entry) ==
    [severity |-> "MEDIUM", category |-> "DUPLICATE_FUNCTION",
     file |-> entry.files[1],
     description |-> [text |-> "defined in multiple files",
                      func_name |-> entry.func_name, files |-> entry.files]]

\* log_issue("LOW", "FILE_ACCESS", file_path, ...)
AccessIssue(file_path) ==
    [severity |-> "LOW", category |-> "FILE_ACCESS", file |-> file_path,
     description |-> [text |-> "Cannot analyze functions",
                      func_name |-> NoMatch, files |-> <<>>]]

\* the report loop: one issue per entry with len(files) > 1
Reported(d) ==
    LET dup == SelectSeq(d, LAMBDA entry : Len(entry.files) > 1)
    IN [k \in 1..Len(dup) |-> DuplicateIssue(dup[k])]

AuditVocab ==
    { <<"foo", "(", ")", " ", "{">>,
      <<" ", " ", "foo", "(", ")", " ", "{">>,
      <<"foo">>,
      <<"(", ")", " ", "{">>,
      <<"bar", " ", "(", ")", "{", " ", "echo", ";", " ", "}">>,
      <<"}">> }

AuditTexts ==
    { JoinLines(ls) :
        ls \in UNION { [1..n -> AuditVocab] : n \in 1..MaxAuditLines } }

\* a second file of the tree
SecondAuditTexts ==
    { <<"echo", " ", "ok">>,
      JoinLines(<< <<"foo", "(", ")", " ", "{">>, <<"}">> >>),
      JoinLines(<< <<"bar", "(", ")", " ", "{">>, <<"}">>,
                   <<"foo", "(", ")", "{", "}">> >>),
      JoinLines(<< <<"helper", "(", ")", " ", "{">>, <<"}">>,
                   <<"helper", "(", ")", " ", "{">>, <<"}">> >>) }

\* a new ProjectAuditor on a tree; glob yields the files in either order
InitAuditor ==
    /\ IdleRemover
    /\ framework_type = "none"
    /\ fs \in {t \in [Paths -> AuditTexts \cup SecondAuditTexts] :
                 t["a.sh"] \in AuditTexts /\ t["b.sh"] \in SecondAuditTexts}
    /\ backups = [f \in Paths |-> NoFile]
    /\ todo \in {PathOrder, <<PathOrder[2], PathOrder[1]>>}
    /\ file_index = 1
    /\ run = 1
    /\ original_content = <<>>
    /\ ret = "none"
    /\ fault = "none"
    /\ faults = 0
    /\ files_updated = 0
    /\ changes_made = 0
    /\ migrated_count = 0
    /\ error_count = 0
    /\ exit_code = "none"
    /\ duplicate_functions = <<>>
    /\ issues = <<>>
    /\ file_hashes = <<>>
    /\ redundant_files = <<>>
    /\ pc = "audit"

\* the body of the file loop, the file being readable
AuditFile ==
    /\ pc = "audit" /\ file_index <= Len(todo)
    /\ LET file_path == todo[file_index]
       IN /\ original_content' = fs[file_path]
          /\ duplicate_functions' =
                Register(duplicate_functions, findall(fs[file_path]), file_path)
    /\ fault' = "none"
    /\ file_index' = file_index + 1
    /\ UNCHANGED <<pc, removerVars, framework_type, fileVars, todo, run, ret,
                   faults, consolidatorVars, migratorVars, issues, file_hashes,
                   redundant_files, exit_code>>

\* the body of the file loop when open or read raises
AuditFileFails ==
    /\ pc = "audit" /\ file_index <= Len(todo)
    /\ faults < MaxFaults
    /\ faults' = faults + 1
    /\ fault' = "read"
    /\ issues' = Append(issues, AccessIssue(todo[file_index]))
    /\ file_index' = file_index + 1
    /\ UNCHANGED <<pc, removerVars, framework_type, fileVars, todo, run,
                   original_content, ret, consolidatorVars, migratorVars,
                   duplicate_functions, file_hashes, redundant_files, exit_code>>

\* the report loop over duplicate_functions.items()
ReportDuplicates ==
    /\ pc = "audit" /\ file_index > Len(todo)
    /\ issues' = issues \o Reported(duplicate_functions)
    /\ pc' = "audited"
    /\ UNCHANGED <<removerVars, framework_type, fileVars, batchVars,
                   consolidatorVars, migratorVars, duplicate_functions,
                   file_hashes, redundant_files, exit_code>>

NextAuditor ==
    \/ AuditFile
    \/ AuditFileFails
    \/ ReportDuplicates

SpecAuditor == InitAuditor /\ [][NextAuditor]_vars

-----------------------------------------------------------------------------
(* project_cleanup_audit.py: ProjectAuditor.find_duplicate_files *)

ScanPaths == {"a.sh", "b.sh", "c.sh"}

\* the orders in which glob can yield the three files
ScanOrders ==
    {o \in [1..3 -> ScanPaths] : \A m, n \in 1..3 : m # n => o[m] # o[n]}

\* two files of 128 bytes each, written in hexadecimal, 32 bytes to a token:
\* they differ in six bytes and have the same MD5 digest
CollidingBlockA ==
    << "d131dd02c5e6eec4693d9a0698aff95c2fcab58712467eab4004583eb8fb7f89",
       "55ad340609f4b30283e488832571415a085125e8f7cdc99fd91dbdf280373c5b",
       "d8823e3156348f5bae6dacd436c919c6dd53e2b487da03fd02396306d248cda0",
       "e99f33420f577ee8ce54b67080a80d1ec69821bcb6a8839396f9652b6ff72a70" >>

CollidingBlockB ==
    << "d131dd02c5e6eec4693d9a0698aff95c2fcab50712467eab4004583eb8fb7f89",
       "55ad340609f4b30283e4888325f1415a085125e8f7cdc99fd91dbd7280373c5b",
       "d8823e3156348f5bae6dacd436c919c6dd53e23487da03fd02396306d248cda0",
       "e99f33420f577ee8ce54b67080280d1ec69821bcb6a8839396f965ab6ff72a70" >>

CollidingDigest == <<"79054025255fb1a26e4bc422aef54eb4">>

\* hashlib.md5(content).hexdigest(): the two colliding blocks share their
\* digest; the digests of the other texts of the model are pairwise different
\* and different from that one
md5(c) ==
    IF c \in {CollidingBlockA, CollidingBlockB} THEN CollidingDigest
    ELSE <<"md5 of">> \o c

ScanTexts ==
    { <<>>,
      <<"echo", " ", "ok">>,
      JoinLines(<< <<"run", " ", "ok">>, <<>> >>),
      CollidingBlockA,
      CollidingBlockB }

\* file_hashes[content_hash].append(file_path): a defaultdict(list) in
\* insertion order
AppendHash(d, content_hash, file_path) ==
    IF \E k \in 1..Len(d) : d[k].content_hash = content_hash
    THEN [k \in 1..Len(d) |->
            IF d[k].content_hash = content_hash
            THEN [d[k] EXCEPT !.files = Append(@, file_path)]
            ELSE d[k]]
    ELSE Append(d, [content_hash |-> content_hash, files |-> <<file_path>>])

\* log_issue("MEDIUM", "DUPLICATE_FILES", files[0], ...)
DuplicateFilesIssue(entry) ==
    [severity |-> "MEDIUM", category |-> "DUPLICATE_FILES",
     file |-> entry.files[1],
     description |-> [text |-> "Duplicate files found",
                      func_name |-> NoMatch, files |-> entry.files]]

\* log_issue("LOW", "FILE_ACCESS", file_path, "Cannot read file: ...")
ReadIssue(file_path) ==
    [severity |-> "LOW", category |-> "FILE_ACCESS", file |-> file_path,
     description |-> [text |-> "Cannot read file",
                      func_name |-> NoMatch, files |-> <<>>]]

RECURSIVE Flatten(_)
\* the lists of ss, one behind the other
Flatten(ss) == IF ss = <<>> THEN <<>> ELSE ss[1] \o Flatten(Tail(ss))

\* the groups of file_hashes with len(files) > 1
DuplicateGroups(d) == SelectSeq(d, LAMBDA entry : Len(entry.files) > 1)

\* redundant_files.extend(files[1:]) for every such group
Redundant(d) ==
    Flatten([k \in 1..Len(DuplicateGroups(d)) |-> Tail(DuplicateGroups(d)[k].files)])

\* the issues of the duplicate loop
ReportedFiles(d) ==
    [k \in 1..Len(DuplicateGroups(d)) |-> DuplicateFilesIssue(DuplicateGroups(d)[k])]

\* a new ProjectAuditor on a tree of three files
InitDuplicateFiles ==
    /\ IdleRemover
    /\ IdleAuditor
    /\ framework_type = "none"
    /\ fs \in [ScanPaths -> ScanTexts]
    /\ backups = <<>>
    /\ todo \in ScanOrders
    /\ file_index = 1
    /\ run = 1
    /\ original_content = <<>>
    /\ ret = "none"
    /\ fault = "none"
    /\ faults = 0
    /\ files_updated = 0
    /\ changes_made = 0
    /\ migrated_count = 0
    /\ error_count = 0
    /\ exit_code = "none"
    /\ pc = "hash"

\* the body of the file loop, the file being readable
HashFile ==
    /\ pc = "hash" /\ file_index <= Len(todo)
    /\ LET file_path == todo[file_index]
       IN /\ original_content' = fs[file_path]
          /\ file_hashes' = AppendHash(file_hashes, md5(fs[file_path]), file_path)
    /\ fault' = "none"
    /\ file_index' = file_index + 1
    /\ UNCHANGED <<pc, removerVars, framework_type, fileVars, todo, run, ret,
                   faults, consolidatorVars, migratorVars, duplicate_functions,
                   issues, redundant_files, exit_code>>

\* the body of the file loop when open or read raises
HashFileFails ==
    /\ pc = "hash" /\ file_index <= Len(todo)
    /\ faults < MaxFaults
    /\ faults' = faults + 1
    /\ fault' = "read"
    /\ issues' = Append(issues, ReadIssue(todo[file_index]))
    /\ file_index' = file_index + 1
    /\ UNCHANGED <<pc, removerVars, framework_type, fileVars, todo, run,
                   original_content, ret, consolidatorVars, migratorVars,
                   duplicate_functions, file_hashes, redundant_files, exit_code>>

\* the loop over file_hashes.items()
ReportDuplicateFiles ==
    /\ pc = "hash" /\ file_index > Len(todo)
    /\ redundant_files' = redundant_files \o Redundant(file_hashes)
    /\ issues' = issues \o ReportedFiles(file_hashes)
    /\ pc' = "hashed"
    /\ UNCHANGED <<removerVars, framework_type, fileVars, batchVars,
                   consolidatorVars, migratorVars, duplicate_functions,
                   file_hashes, exit_code>>

NextDuplicateFiles ==
    \/ HashFile
    \/ HashFileFails
    \/ ReportDuplicateFiles

SpecDuplicateFiles == InitDuplicateFiles /\ [][NextDuplicateFiles]_vars

-----------------------------------------------------------------------------
(* project_cleanup_audit.py: ProjectAuditor.analyze_complexity *)
(* Here a file is the list f.readlines() returns: one token sequence per   *)
(* line, the newline that ends the line included.                          *)

\* most code lines in a generated file
MaxCodeLines == 302

HighThreshold == 300

MediumThreshold == 200

\* total_lines > 50
DocumentationMinLines == 50

\* comment_lines / total_lines < 0.1
DocumentationRatioDivisor == 10

\* line.strip().startswith("#")
IsCommentLine(line) == Strip(line) # <<>> /\ Strip(line)[1] = "#"

total_lines(ls) == Len(ls)

\* sum(1 for line in lines if line.strip() and not line.strip().startswith("#"))
code_lines(ls) ==
    Cardinality({k \in 1..Len(ls) : Strip(ls[k]) # <<>> /\ ~IsCommentLine(ls[k])})

\* sum(1 for line in lines if line.strip().startswith("#"))
comment_lines(ls) == Cardinality({k \in 1..Len(ls) : IsCommentLine(ls[k])})

\* thresholds that include their bound
ComplexityAtLeast(n) ==
    IF n >= HighThreshold THEN "HIGH"
    ELSE IF n >= MediumThreshold THEN "MEDIUM"
    ELSE "none"

\* if code_lines > 300: HIGH; elif code_lines > 200: MEDIUM
Complexity(n) ==
    IF n > HighThreshold THEN "HIGH"
    ELSE IF n > MediumThreshold THEN "MEDIUM"
    ELSE "none"

\* log_issue(severity, "COMPLEX_FILE", file_path, ...)
ComplexIssue(file_path, severity, n) ==
    [severity |-> severity, category |-> "COMPLEX_FILE", file |-> file_path,
     description |-> [text |-> "code lines", func_name |-> NoMatch,
                      files |-> <<>>, count |-> n]]

\* log_issue("LOW", "LOW_DOCUMENTATION", file_path, ...)
DocumentationIssue(file_path) ==
    [severity |-> "LOW", category |-> "LOW_DOCUMENTATION", file |-> file_path,
     description |-> [text |-> "Low comment ratio", func_name |-> NoMatch,
                      files |-> <<>>]]

\* log_issue("LOW", "FILE_ACCESS", file_path, "Cannot analyze complexity: ...")
ComplexityAccessIssue(file_path) ==
    [severity |-> "LOW", category |-> "FILE_ACCESS", file |-> file_path,
     description |-> [text |-> "Cannot analyze complexity",
                      func_name |-> NoMatch, files |-> <<>>]]

\* the issues the loop body logs for a file that was read
Analyzed(file_path, ls) ==
    (IF Complexity(code_lines(ls)) = "none" THEN <<>>
     ELSE <<ComplexIssue(file_path, Complexity(code_lines(ls)), code_lines(ls))>>)
    \o (IF total_lines(ls) > DocumentationMinLines
           /\ DocumentationRatioDivisor * comment_lines(ls) < total_lines(ls)
        THEN <<DocumentationIssue(file_path)>>
        ELSE <<>>)

\* lines that are code
PlainCodeLine == <<"echo", " ", "ok", NL>>

IndentedCodeLine == <<" ", " ", "run", " ", "#", " ", "ok", NL>>

\* lines that are not code
Paddings ==
    { <<>>,
      << <<"#", "!", "/bin/bash", NL>>, <<NL>>, <<" ", "\t", NL>>,
         <<" ", " ", "#", " ", "main", NL>> >> }

\* n code lines, alternately plain and indented, with the padding lines in
\* front of them and behind them
CodeFile(n, padding) ==
    padding
    \o [k \in 1..n |-> IF k % 2 = 1 THEN PlainCodeLine ELSE IndentedCodeLine]
    \o padding

\* the numbers of code lines around the two thresholds
CodeLineCounts ==
    ((MediumThreshold - 2)..(MediumThreshold + 2))
        \cup ((HighThreshold - 2)..MaxCodeLines)

ComplexityFiles ==
    {CodeFile(n, padding) : n \in CodeLineCounts, padding \in Paddings}

SecondComplexityFiles == {CodeFile(250, <<>>), CodeFile(0, <<>>)}

ThirdComplexityFiles ==
    {CodeFile(150, <<>>), CodeFile(301, << <<"#", " ", "the", NL>> >>)}

\* a new ProjectAuditor on a tree of three files
InitComplexity ==
    /\ IdleRemover
    /\ IdleAuditor
    /\ framework_type = "none"
    /\ fs \in {[f \in ScanPaths |->
                   IF f = "a.sh" THEN x ELSE IF f = "b.sh" THEN y ELSE z] :
                 x \in ComplexityFiles, y \in SecondComplexityFiles,
                 z \in ThirdComplexityFiles}
    /\ backups = <<>>
    /\ todo \in {<<"a.sh", "b.sh", "c.sh">>, <<"c.sh", "b.sh", "a.sh">>}
    /\ file_index = 1
    /\ run = 1
    /\ original_content = <<>>
    /\ ret = "none"
    /\ fault = "none"
    /\ faults = 0
    /\ files_updated = 0
    /\ changes_made = 0
    /\ migrated_count = 0
    /\ error_count = 0
    /\ exit_code = "none"
    /\ pc = "analyze"

\* the body of the file loop, the file being readable
AnalyzeFile ==
    /\ pc = "analyze" /\ file_index <= Len(todo)
    /\ issues' = issues \o Analyzed(todo[file_index], fs[todo[file_index]])
    /\ fault' = "none"
    /\ file_index' = file_index + 1
    /\ UNCHANGED <<pc, removerVars, framework_type, fileVars, todo, run,
                   original_content, ret, faults, consolidatorVars, migratorVars,
                   duplicate_functions, file_hashes, redundant_files, exit_code>>

\* the body of the file loop when open or readlines raises
AnalyzeFileFails ==
    /\ pc = "analyze" /\ file_index <= Len(todo)
    /\ faults < MaxFaults
    /\ faults' = faults + 1
    /\ fault' = "read"
    /\ issues' = Append(issues, ComplexityAccessIssue(todo[file_index]))
    /\ file_index' = file_index + 1
    /\ UNCHANGED <<pc, removerVars, framework_type, fileVars, todo, run,
                   original_content, ret, consolidatorVars, migratorVars,
                   duplicate_functions, file_hashes, redundant_files, exit_code>>

\* analyze_complexity returns
AnalysisDone ==
    /\ pc = "analyze" /\ file_index > Len(todo)
    /\ pc' = "analyzed"
    /\ UNCHANGED <<removerVars, framework_type, fileVars, batchVars,
                   consolidatorVars, migratorVars, auditorVars, exit_code>>

NextComplexity ==
    \/ AnalyzeFile
    \/ AnalyzeFileFails
    \/ AnalysisDone

SpecComplexity == InitComplexity /\ [][NextComplexity]_vars

-----------------------------------------------------------------------------
(* Notions the stated properties are phrased in *)

\* a function-definition header anchored at the first character of the line
AnchoredHeader(line) == MatchHeader(line, 1)

\* a function-definition header once leading and trailing blanks are removed
StrippedHeader(line) == MatchHeader(Strip(line), 1)

RECURSIVE Balance(_, _, _)
\* count('{') - count('}') summed over lines h..e
Balance(ls, h, e) ==
    IF e < h THEN 0
    ELSE Balance(ls, h, e - 1) + CountTok(ls[e], "{") - CountTok(ls[e], "}")

ClosingLines(ls, h) == {e \in h..Len(ls) : Balance(ls, h, e) <= 0}

SpanEnd(ls, h) == CHOOSE e \in ClosingLines(ls, h) : \A d \in ClosingLines(ls, h) : e <= d

HeaderLines(ls) == {h \in 1..Len(ls) : StrippedHeader(ls[h]) # NoMatch}

\* every function's braces balance (its header's depth returns to exactly
\* zero), and no brace stands outside the functions
WellFormed(ls) ==
    /\ \A h \in HeaderLines(ls) :
          ClosingLines(ls, h) # {} /\ Balance(ls, h, SpanEnd(ls, h)) = 0
    /\ \A k \in 1..Len(ls) :
          (\A h \in HeaderLines(ls) : k \notin h..SpanEnd(ls, h))
              => CountTok(ls[k], "{") + CountTok(ls[k], "}") = 0

\* the lines inside the header-to-closing-brace span of a function named in F
FunctionSpans(ls, F) ==
    UNION { h..SpanEnd(ls, h) :
            h \in {g \in HeaderLines(ls) : StrippedHeader(ls[g]) \in F} }

RECURSIVE KeepFrom(_, _, _)
\* ls without the lines whose index is in K, from index k on
KeepFrom(ls, K, k) ==
    IF k > Len(ls) THEN <<>>
    ELSE (IF k \in K THEN <<>> ELSE <<ls[k]>>) \o KeepFrom(ls, K, k + 1)

-----------------------------------------------------------------------------
(* Properties of the function remover *)

\* C1: on a text whose functions all have balanced braces (one-line functions
\* included), the output is the input without some lines that all lie inside
\* the span of a function named in the deletion set; every other line is kept,
\* unchanged and in order.
C1_BalanceInvariant ==
    (pc = "removed" /\ WellFormed(lines)) =>
        \E K \in SUBSET FunctionSpans(lines, functions_to_remove) :
            result = JoinLines(KeepFrom(lines, K, 1))

C2_Scenario ==
    /\ pc = "removed"
    /\ content = JoinLines(NestedBraceLines)
    /\ functions_to_remove = {"foo"}

\* C2 as stated: removing {foo} from the nested-brace text removes the five
\* lines of foo and leaves bar() {\n  echo ok\n}\n verbatim.
C2_NestedBraceKeepsBar ==
    C2_Scenario => result = JoinLines(SubSeq(NestedBraceLines, 6, 9))

\* C2 amended: removing {foo} from the nested-brace text removes every line,
\* the three lines of bar and the trailing empty line included: the output is
\* the empty text.
C2_NestedBraceDropsAll ==
    C2_Scenario => (new_lines = <<>> /\ result = <<>>)

C2_Witness == C2_Scenario /\ i = Len(NestedBraceLines)

\* C3: removing the deletion set again from the output of a removal returns
\* that output, for malformed texts too.
C3_Idempotent == pc = "done" => result2 = result

C3_Witness ==
    /\ pc = "done"
    /\ result # content /\ result # <<>>
    /\ ~WellFormed(lines)
    /\ \E h \in 1..Len(lines) : StrippedHeader(lines[h]) \in functions_to_remove

\* C9 as stated: outside deletion mode, deletion mode is entered only on a
\* header anchored at the first character of the line whose name is in the
\* deletion set, and every other line is emitted unchanged.
C9_EntersOnAnchoredHeader ==
    [][(pc = "loop" /\ ~skip_until_end /\ i' = i + 1) =>
         /\ skip_until_end' => AnchoredHeader(lines[i + 1]) \in functions_to_remove
         /\ AnchoredHeader(lines[i + 1]) \notin functions_to_remove
              => new_lines' = Append(new_lines, lines[i + 1])]_vars

\* C9 amended: outside deletion mode, deletion mode is entered only on a line
\* that is a header once its leading and trailing whitespace is stripped and
\* whose name is in the deletion set, and every other line is emitted unchanged.
C9_EntersOnStrippedHeader ==
    [][(pc = "loop" /\ ~skip_until_end /\ i' = i + 1) =>
         /\ skip_until_end' => StrippedHeader(lines[i + 1]) \in functions_to_remove
         /\ StrippedHeader(lines[i + 1]) \notin functions_to_remove
              => new_lines' = Append(new_lines, lines[i + 1])]_vars

\* deletion mode entered on an indented header
C9_Witness ==
    /\ pc = "loop" /\ i = 1 /\ skip_until_end
    /\ IsSpace(lines[1][1])

-----------------------------------------------------------------------------
(* Properties of the import injector *)

\* the anchor of the stated injection point: the first line j, at or after the
\* first marker line m, that IsFi accepts and with "bootstrap" in lines m..j-1
AnchorLine(ls, IsFi(_)) ==
    LET markers == {m \in 1..Len(ls) : In("SERVERSENTRY_ENV_LOADED", ls[m])}
        m0 == MinOf(markers)
        anchors == {j \in m0..Len(ls) :
                      /\ IsFi(ls[j])
                      /\ \E n \in m0..(j - 1) : InLower("bootstrap", ls[n])}
    IN IF markers = {} \/ anchors = {} THEN 0 ELSE MinOf(anchors)

ExactFi(line) == line = <<"fi">>

\* text c with the import block's lines placed right behind line a
WithImportAfter(c, a, type) ==
    LET ls == SplitLines(c) IN
    JoinLines(SubSeq(ls, 1, a)
              \o (IF type = "test" THEN TestImportLines ELSE UiImportLines)
              \o SubSeq(ls, a + 1, Len(ls)))

\* C8 as stated: the block goes immediately after the first line, at or after
\* the first marker line, that is exactly `fi` with "bootstrap" between the
\* marker line and it; with no such line it goes to index 0.
C8_InsertsAfterExactFi ==
    (pc = "injected" /\ framework_type \in {"test", "ui"}) =>
        result = WithImportAfter(content,
                                 AnchorLine(SplitLines(content), ExactFi),
                                 framework_type)

-----------------------------------------------------------------------------
(* Properties of the consolidation step *)

\* C7: with no I/O failure, update_file run a second time on the content its
\* first run produced inserts nothing, removes nothing and does not rewrite
\* the file.
C7_SecondRunChangesNothing ==
    [][(pc = "consolidate" /\ run = 2 /\ faults = 0 /\ faults' = 0
        /\ file_index' = file_index + 1)
          => (fs' = fs /\ ret' = "False" /\ files_updated' = files_updated)]_vars

-----------------------------------------------------------------------------
(* Properties of the failure paths *)

\* the file the last call of the batch worked on
LastFile == todo[file_index - 1]

WriteFailed == file_index > 1 /\ fault \in {"open", "write"}

IsPrefix(s, t) == Len(s) <= Len(t) /\ s = SubSeq(t, 1, Len(s))

\* C4: when opening the file for writing or the write itself fails, then once
\* migrate_file has returned the file holds what it held before the call and
\* there is no backup of it.
C4_WriteFailureRestores ==
    (pc \in {"migrate", "migrated"} /\ WriteFailed) =>
        /\ ret = "False"
        /\ fs[LastFile] = original_content
        /\ backups[LastFile] = NoFile

\* a write of a migrated text that stopped part-way, restored
C4_Witness ==
    /\ pc = "migrate" /\ WriteFailed /\ fault = "write"
    /\ Migrated(original_content) # original_content
    /\ fs[LastFile] = original_content

\* C5 as stated: update_file and migrate_file alike back the file up before
\* overwriting it and restore it when the write raises: after a failed write
\* the file holds what it held before the operation.
C5_EveryFailedWriteRestores ==
    (pc \in {"consolidate", "consolidated", "migrate", "migrated"} /\ WriteFailed)
        => fs[LastFile] = original_content

\* C5 amended: only migrate_file backs the file up and restores it; update_file
\* never writes a backup and restores nothing, so after its failed open the
\* file is unchanged and after its failed write the file holds a truncated
\* prefix (possibly empty) of the new content.
C5_OnlyMigrationRestores ==
    /\ (pc \in {"migrate", "migrated"} /\ WriteFailed)
          => fs[LastFile] = original_content
    /\ pc \in {"consolidate", "consolidated"}
          => /\ \A f \in Paths : backups[f] = NoFile
             /\ (WriteFailed /\ fault = "open") => fs[LastFile] = original_content
             /\ (WriteFailed /\ fault = "write")
                   => IsPrefix(fs[LastFile], Updated(original_content).content)

\* update_file's write failed and left the file different from what it was
C5_Witness ==
    /\ pc = "consolidate" /\ WriteFailed /\ fault = "write"
    /\ fs[LastFile] # original_content

\* C6 as stated: a candidate file the legacy pattern does not match is left
\* untouched, its backup is removed, it is not counted in the error tally, and
\* a run without any I/O failure exits with 0.
C6_NoMatchIsNotAnError ==
    [][/\ (/\ pc = "migrate" /\ file_index <= Len(todo)
           /\ file_index' = file_index + 1 /\ faults' = faults
           /\ Migrated(fs[todo[file_index]]) = fs[todo[file_index]])
          => /\ fs' = fs
             /\ backups'[todo[file_index]] = NoFile
             /\ error_count' = error_count
       /\ (pc' = "migrated" /\ faults = 0) => exit_code' = 0]_vars

-----------------------------------------------------------------------------
(* Properties of the auditor *)

\* the files of the tree with a header of the name at the start of a line
DefiningFiles(tree, func_name) ==
    {f \in Paths : \E a \in 1..Len(tree[f]) :
        LineStart(tree[f], a) /\ MatchHeader(tree[f], a) = func_name}

\* C10: a DUPLICATE_FUNCTION issue is logged for a name only if more than one
\* distinct file defines the name; a name defined several times in one file
\* and in no other file gives no issue.
C10_CrossFileOnly ==
    \A k \in 1..Len(issues) :
        issues[k].category = "DUPLICATE_FUNCTION"
            => Cardinality(DefiningFiles(fs, issues[k].description.func_name)) > 1

\* the findings logged for a name
FindingsOf(func_name) ==
    {k \in 1..Len(issues) :
        /\ issues[k].category = "DUPLICATE_FUNCTION"
        /\ issues[k].description.func_name = func_name}

\* the first file, in traversal order, that defines the name
FirstSeen(func_name) ==
    todo[MinOf({n \in 1..Len(todo) : todo[n] \in DefiningFiles(fs, func_name)})]

\* the names with a header in two or more distinct files
CrossFileNames ==
    {func_name \in IdentifierTokens : Cardinality(DefiningFiles(fs, func_name)) >= 2}

\* C11: after an audit run in which every file was readable, every name with a
\* header in two or more distinct files has exactly one DUPLICATE_FUNCTION
\* issue; the issue is attributed to the first-seen file and its list names
\* every file that defines the name (and no other file).
C11_DetectionComplete ==
    (pc = "audited" /\ faults = 0) =>
        \A func_name \in CrossFileNames :
            /\ Cardinality(FindingsOf(func_name)) = 1
            /\ \A k \in FindingsOf(func_name) :
                  /\ issues[k].file = FirstSeen(func_name)
                  /\ {issues[k].description.files[n] :
                        n \in 1..Len(issues[k].description.files)}
                       = DefiningFiles(fs, func_name)

\* a name defined in both files, twice in the file scanned last
C11_Witness ==
    /\ pc = "audited" /\ faults = 0
    /\ \E func_name \in CrossFileNames :
          \E k \in FindingsOf(func_name) :
             /\ Len(issues[k].description.files) > 2
             /\ issues[k].file = todo[1]
             /\ todo[1] = "b.sh"

-----------------------------------------------------------------------------
(* Properties of the duplicate-file scan *)

\* the files the scan could read
Scanned ==
    {f \in ScanPaths :
        \A k \in 1..Len(issues) :
            ~(issues[k].category = "FILE_ACCESS" /\ issues[k].file = f)}

\* the scanned files with the same bytes as f
SameContent(f) == {g \in Scanned : fs[g] = fs[f]}

\* the file of the group that comes first in traversal order
Canonical(G) == todo[MinOf({n \in 1..Len(todo) : todo[n] \in G})]

TimesRedundant(f) ==
    Cardinality({k \in 1..Len(redundant_files) : redundant_files[k] = f})

\* C12: in every group of two or more scanned files with byte-identical
\* content the first file in traversal order is never in redundant_files, each
\* other file of the group is in it (once), and one DUPLICATE_FILES issue is
\* logged for the group; a file with unique content is never in
\* redundant_files.
C12_ByteIdenticalGroups ==
    pc = "hashed" =>
        \A f \in Scanned :
            LET G == SameContent(f) IN
            IF Cardinality(G) >= 2
            THEN /\ TimesRedundant(f) = (IF f = Canonical(G) THEN 0 ELSE 1)
                 /\ Cardinality({k \in 1..Len(issues) :
                        /\ issues[k].category = "DUPLICATE_FILES"
                        /\ issues[k].file = Canonical(G)}) = 1
            ELSE TimesRedundant(f) = 0

-----------------------------------------------------------------------------
(* Properties of the operation boundary *)

\* C13: whatever step of migrate_file or update_file fails (read, backup copy,
\* write, or the restore inside the error handler), the call returns a boolean
\* and does not raise, and the batch driver attempts every file of the run.
C13_NoExceptionEscapes ==
    /\ ret \in {"none", "True", "False"}
    /\ pc # "crashed"
    /\ pc \in {"migrated", "consolidated"} => file_index = Len(todo) + 1

-----------------------------------------------------------------------------
(* Properties of the complexity analysis *)

\* the lines of a file that are neither blank nor a comment
NonBlankNonComment(ls) ==
    Cardinality({k \in 1..Len(ls) :
        /\ \E n \in 1..Len(ls[k]) : ~IsSpace(ls[k][n])
        /\ LStrip(ls[k])[1] # "#"})

\* the severities of the COMPLEX_FILE issues logged for f, one per issue
ComplexFindings(f) ==
    {k \in 1..Len(issues) :
        issues[k].category = "COMPLEX_FILE" /\ issues[k].file = f}

\* the files analyze_complexity has read
WasAnalyzed(f) ==
    /\ \E n \in 1..(file_index - 1) : todo[n] = f
    /\ \A k \in 1..Len(issues) :
          ~(issues[k].category = "FILE_ACCESS" /\ issues[k].file = f)

\* C14: a readable file with n non-blank non-comment lines gets exactly one
\* COMPLEX_FILE issue of severity HIGH when n > 300, exactly one of severity
\* MEDIUM when 200 < n <= 300, and none when n <= 200.
C14_ComplexityClasses ==
    \A f \in ScanPaths :
        (pc \in {"analyze", "analyzed"} /\ WasAnalyzed(f)) =>
            LET n == NonBlankNonComment(fs[f]) IN
            /\ n > 300 =>
                  /\ Cardinality(ComplexFindings(f)) = 1
                  /\ \A k \in ComplexFindings(f) : issues[k].severity = "HIGH"
            /\ (200 < n /\ n <= 300) =>
                  /\ Cardinality(ComplexFindings(f)) = 1
                  /\ \A k \in ComplexFindings(f) : issues[k].severity = "MEDIUM"
            /\ n <= 200 => ComplexFindings(f) = {}

\* files of 301, 250 and 150 code lines analyzed in one run, next to a file
\* at a threshold
C14_Witness ==
    /\ pc = "analyzed" /\ faults = 0
    /\ NonBlankNonComment(fs["c.sh"]) = 301 /\ Len(fs["c.sh"]) > 301
    /\ NonBlankNonComment(fs["b.sh"]) = 250
    /\ NonBlankNonComment(fs["a.sh"]) = 300 /\ Len(fs["a.sh"]) > 300
    /\ \E k \in ComplexFindings("c.sh") : issues[k].severity = "HIGH"
    /\ \E k \in ComplexFindings("b.sh") : issues[k].severity = "MEDIUM"
    /\ \E k \in ComplexFindings("a.sh") : issues[k].severity = "MEDIUM"

-----------------------------------------------------------------------------
(* Properties of migrate_file's False outcomes *)

\* C15: whenever migrate_file returns False (the read failed, the copy of the
\* backup failed, the pattern did not match, the write failed), the file holds
\* after the call what it held before it, whether or not a backup of it lay
\* there before the call: a backup left over from earlier is never moved over
\* the file.
C15_FalseLeavesFileAsItWas ==
    [][(pc = "migrate" /\ file_index <= Len(todo)
        /\ file_index' = file_index + 1 /\ ret' = "False")
          => fs'[todo[file_index]] = fs[todo[file_index]]]_vars

====
